---------------------------- MODULE Spec2Model ----------------------------
(***************************************************************************)
(* World / chunk subsystem of VoxelEnigen: the ChunkManager map, the       *)
(* per-chunk flags of ManagedChunk, setBlockWorld, generateTrees and the   *)
(* per-frame entry point updateChunks (src/src/world.cpp, src/src/chunk.h).*)
(*                                                                         *)
(* A chunk's 16 x 128 x 16 block grid is kept as a base (all AIR after     *)
(* construction, the terrain columns after generateTerrainForChunk) plus   *)
(* the cells written on top of it by setBlockWorld; GetBlock reads through *)
(* both, so the grid has the value the dense array of the code has.        *)
(* Observer positions and world coordinates are integer-valued floats.     *)
(***************************************************************************)
EXTENDS Integers, Sequences, FiniteSets, TLC

VARIABLES
    chunks,        \* ChunkManager::chunks : chunk coordinate -> ManagedChunk
    leaked,        \* ManagedChunks allocated, never deleted and no longer in the map
    pc,            \* position inside updateChunks ("init" before the first call)
    cam,           \* <<camChunkX, camChunkZ>> of the running / last updateChunks
    radius,        \* the radius argument of the running / last updateChunks
    todo,          \* offsets <<dx,dz>> the STRUCTURE PASS loop has still to visit
    ranTrees,      \* chunk coordinates generateTrees was run on in the running tick
    meshedInTick,  \* a generateMesh call has happened in the running tick
    writeAfterMesh,\* a structure-pass block write followed a generateMesh call of the tick
    treesPlaced,   \* columns whose rand() draw passed the tree chance so far
    modified,      \* the std::set passed as `modified` by a direct setBlockWorld caller
    perm,          \* the global table `perm` of the noise functions
    stale,         \* chunks meshed before a lateral neighbour changed (see Outdated)
    call           \* the last operation invoked and what it met

vars == <<chunks, leaked, pc, cam, radius, todo, ranTrees, meshedInTick,
          writeAfterMesh, treesPlaced, modified, perm, stale, call>>

---------------------------------------------------------------------------
(* Bounds of the model *)

\* columns whose random draw may pass the tree chance, over a whole run
MaxTrees == 2
\* ManagedChunks a run may leak before direct addChunk calls stop
MaxLeaked == 1
\* entries of the vector initPerlin shuffles; `perm` has twice as many (the
\* program has 256 and 512, and masks with 255)
PermSize == 4

(* Program constants *)

ChunkWidth == 16
ChunkDepth == 16
ChunkHeight == 128
BaseHeight == 48
MacroAmp == 20
RegionAmp == 6
DetailAmp == 2
HillAmp == 14
MinDirt == 2
MaxDirt == 5
Pad == 1

\* observer positions (pos.x, pos.z) and radii handed to updateChunks
Positions == {<<-8, 8>>, <<24, 24>>}
Radii == {0, 1}

\* the local columns (x,z) of a chunk at which rand() may pass the tree chance
\* (the border column, whose tree writes into the chunk itself and into its +x
\* neighbour) and the values 4 + rand() % 3 takes there
TreeCols == {<<15, 8>>}
TrunkHeights == {5}

\* generateTrees called on worlds whose terrain is generated: the chunks it is
\* called on, the columns at which rand() may pass the chance (one whose canopy
\* crosses the -x border of the chunk, one whose canopy crosses the +x border and
\* meets higher terrain) and every value of 4 + rand() % 3
CanopyCoords == {<<0, 0>>, <<1, 0>>}
CanopyCols == {<<1, 8>>, <<14, 8>>}
CanopyHeights == {4, 5, 6}

\* perlin samples, in sixteenths: |grad| <= |x| + 2 |y| lets perlin leave [-1,1];
\* at the centre of a lattice cell it reaches 24/16 in magnitude
NoiseSamples == {-24, -16, 0, 4, 16, 24}

\* values rand() returns to initPerlin: small ones, which reach every j, and
\* RAND_MAX
RandOutcomes == (0..PermSize) \cup {2147483647}

\* floor(x) and floor(y) of the points perlin is asked for: the lattice cells of
\* one period of the table, and one cell on either side of it
LatticeCoords == (-1)..PermSize

\* integer world coordinates handed to getChunkCoord: around the origin, and
\* around 2^24, where the ints are no longer all floats
CoordInputs ==
    (-48..47) \cup {16777215, 16777216, 16777217, 16777231, 16777232, -16777231}

\* the coordinates a program that uses the manager as a container adds, removes
\* and asks the neighbours of: a 2 x 2 block of chunks
ManagerCoords == {<<0, 0>>, <<1, 0>>, <<0, 1>>, <<1, 1>>}

\* direct calls of the ChunkManager and world functions: chunk coordinates,
\* world cells <<worldX, y, worldZ>> (both of chunk (1,0), which is loaded at
\* some calls and not at others: one inside the grid, one above it) and block types
ApiCoords == {<<0, 0>>, <<1, 0>>}
ApiCells == {<<16, 60, 8>>, <<16, 128, 8>>}
ApiTypes == {"WOOD"}

\* updateChunks and setBlockWorld 2^24 blocks from the origin, where the ints are
\* no longer all floats: observer positions (pos.x, pos.z) in the chunks 1048576
\* and 1048577 (both floats), and world cells of chunk 1048576, one with an even
\* and one with an odd worldX
FarPositions == {<<16777216, 8>>, <<16777240, 8>>}
FarRadii == {0}
FarCells == {<<16777230, 60, 8>>, <<16777231, 60, 8>>}

---------------------------------------------------------------------------
(* Coordinates *)

\* the spacing of the floats around an integer of magnitude a < 2^31 (24-bit
\* significand)
FloatUlp(a) ==
    IF a < 2 ^ 24 THEN 1
    ELSE IF a < 2 ^ 25 THEN 2
    ELSE IF a < 2 ^ 26 THEN 4
    ELSE IF a < 2 ^ 27 THEN 8
    ELSE IF a < 2 ^ 28 THEN 16
    ELSE IF a < 2 ^ 29 THEN 32
    ELSE IF a < 2 ^ 30 THEN 64
    ELSE 128

\* (float)n for an int n: the nearest float, ties to the even significand; the
\* result is integer-valued
ToFloat(n) ==
    LET a  == IF n < 0 THEN -n ELSE n
        q  == FloatUlp(a)
        r  == a % q
        lo == a - r
        m  == IF 2 * r > q \/ (2 * r = q /\ (lo \div q) % 2 = 1) THEN lo + q ELSE lo
    IN  IF n < 0 THEN -m ELSE m

\* getChunkCoord: (int)floor(worldPos / 16.0f) for an integer-valued float; the
\* division by 16 is exact in float, \div rounds toward minus infinity
getChunkCoord(worldPos) == worldPos \div 16

Abs(n) == IF n < 0 THEN -n ELSE n

\* ShouldExist built from radius instead of fullRadius
ShouldExistNoPad(cm, r) ==
    {<<cm[1] + dx, cm[2] + dz>> : dx \in (-r)..r, dz \in (-r)..r}

\* updateChunks, lines 323-330: the set shouldExist
ShouldExist(cm, r) ==
    LET fullRadius == r + Pad
    IN  {<<cm[1] + dx, cm[2] + dz>> : dx \in (-fullRadius)..fullRadius,
                                      dz \in (-fullRadius)..fullRadius}

\* InDisc without the Euclidean test: the whole square of radius r
InDiscSquare(dx, dz, r) == TRUE

\* updateChunks, line 366: the offsets the STRUCTURE PASS does not `continue` on
InDisc(dx, dz, r) == ~(dx * dx + dz * dz > r * r)

\* the offsets of the STRUCTURE PASS in loop order (dx outer, dz inner)
StructureOffsets(r) ==
    LET n == 2 * r + 1
        all == [i \in 1..(IF r < 0 THEN 0 ELSE n * n) |->
                   <<((i - 1) \div n) - r, ((i - 1) % n) - r>>]
    IN  SelectSeq(all, LAMBDA o : InDisc(o[1], o[2], r))

---------------------------------------------------------------------------
(* Noise *)

\* int perm[512], line 7: a global, zero before initPerlin runs
ZeroTable == [i \in 0..(2 * PermSize - 1) |-> 0]

\* initPerlin, line 11: p[i] = i
Identity == [i \in 0..(PermSize - 1) |-> i]

\* std::swap(p[i], p[j])
Swap(p, i, j) == [p EXCEPT ![i] = p[j], ![j] = p[i]]

\* initPerlin, lines 13-16: the loop from i down to 1; draws is the sequence of
\* values rand() returns, the first of them to the first pass of the loop
RECURSIVE Shuffle(_, _, _)
Shuffle(p, i, draws) ==
    IF ~(i > 0) THEN p
    ELSE LET j == draws[PermSize - i] % (i + 1)
         IN  Shuffle(Swap(p, i, j), i - 1, draws)

\* Duplicate that fills only the lower half of the table
DuplicateLower(p) ==
    [i \in 0..(2 * PermSize - 1) |-> IF i < PermSize THEN p[i] ELSE 0]

\* initPerlin, line 18: perm[i] = p[i & 255] for the i of the table
Duplicate(p) == [i \in 0..(2 * PermSize - 1) |-> p[i % PermSize]]

\* initPerlin: the table it leaves in perm
InitPerlin(draws) == Duplicate(Shuffle(Identity, PermSize - 1, draws))

\* perlin, lines 46-47: (int)floor(x) & 255 for floor(x) = f; the mask of a
\* negative int in two's complement is its residue
Lattice(f) == f % PermSize

\* perlin, lines 55-58: the indices at which perm is read for aa, ab, ba and bb
PerlinIndices(table, X, Y) ==
    <<X + table[Y], X + table[Y + 1], X + 1 + table[Y], X + 1 + table[Y + 1]>>

---------------------------------------------------------------------------
(* Blocks and chunks *)

Block(t, a) == [type |-> t, axis |-> a]
AirBlock == Block("AIR", "Y")
EmptyWrites == [cell \in {} |-> AirBlock]
NoMesh == [built |-> FALSE]

\* new ManagedChunk(cx, cz): the flag defaults of chunk.h, an all-AIR grid.
\* meshedRaw, treesRaw: generateMesh, generateTrees was invoked on the chunk
\* while its terrainGenerated flag was false
NewManagedChunk(cx, cz) ==
    [chunkX |-> cx, chunkZ |-> cz,
     filled |-> FALSE, writes |-> EmptyWrites,
     terrainGenerated |-> FALSE, structuresGenerated |-> FALSE,
     meshUploaded |-> FALSE, meshDirty |-> TRUE,
     meshedFrom |-> NoMesh,
     terrainRuns |-> 0, treeRuns |-> 0,
     meshedRaw |-> FALSE, treesRaw |-> FALSE]

(* One column of generateTerrainForChunk, lines 151-209.  A perlin sample is  *)
(* a number of sixteenths; the float quantities are fixed-point numbers in    *)
(* units of 2^-22, in which every product and sum below is exact, as it is in *)
(* float arithmetic for samples that are multiples of 1/16.                   *)

One == 2 ^ 22
Sample(n) == n * (2 ^ 18)

\* int(x) for the float n / d, d > 0: the conversion truncates toward zero
Trunc(n, d) == IF n >= 0 THEN n \div d ELSE -((-n) \div d)

\* clampf, lines 29-31
Clampf(x, a, b) ==
    LET m == IF x < b THEN x ELSE b
    IN  IF a > m THEN a ELSE m

\* smoothstepf, lines 33-36, on t = t64 / 64 before clamping; result in units
\* of 2^-18
Smoothstepf(t64) ==
    LET t == Clampf(t64, 0, 64)
    IN  t * t * (3 * 64 - 2 * t)

\* lines 164-169: hillMask, in units of 2^-18, from maskRaw = m / 16;
\* (mask01 - 0.62) / 0.08 = ((m + 16) / 32 - 0.62) / 0.08 = (25 m - 96) / 64
HillMask(m) == Smoothstepf(25 * m - 96)

\* lines 156, 161, 174: the offsets of the macro, region and detail octaves
MacroOffset(n) == MacroAmp * Sample(n.macro)
RegionOffset(n) == RegionAmp * Sample(n.region)
DetailOffset(n) == DetailAmp * Sample(n.detail)

\* lines 179-180: hillOnlyUp = ((hillN + 1) * 0.5) * hillAmp, hillOffset
HillOffset(n) == (HillAmp \div 2) * (n.hill + 16) * HillMask(n.mask)

\* TerrainHeight without the base height
TerrainHeightNoBase(n) ==
    LET terrainHeight ==
            Trunc(MacroOffset(n) + RegionOffset(n) + DetailOffset(n) + HillOffset(n), One)
    IN  IF terrainHeight >= ChunkHeight THEN ChunkHeight - 1 ELSE terrainHeight

\* lines 182-184: terrainHeight for the samples n = [macro, region, mask, detail, hill]
TerrainHeight(n) ==
    LET terrainHeight ==
            Trunc(BaseHeight * One + MacroOffset(n) + RegionOffset(n) + DetailOffset(n)
                  + HillOffset(n), One)
    IN  IF terrainHeight >= ChunkHeight THEN ChunkHeight - 1 ELSE terrainHeight

\* lines 187-198: dirtDepth
DirtDepth(n, terrainHeight) ==
    LET d == DetailOffset(n)
        localVariationMag == (IF d < 0 THEN -d ELSE d) + 16 * HillMask(n.mask) * (HillAmp \div 2)
        span == (HillAmp + DetailAmp) * One
        base == MinDirt + Trunc(Clampf(localVariationMag, 0, span) * (MaxDirt - MinDirt), span)
        \* int(baseHeight + macroOffset + regionAmp * 0.8f), in eightieths
        stoneThreshold == Trunc(80 * BaseHeight + 5 * MacroAmp * n.macro + 64 * RegionAmp, 80)
        thinned == IF terrainHeight > stoneThreshold
                     THEN LET t == base - Trunc(terrainHeight - stoneThreshold, 2)
                          IN  IF t > 1 THEN t ELSE 1
                     ELSE base
    IN  IF thinned > terrainHeight THEN terrainHeight ELSE thinned

\* ColumnBlock with the DIRT run one block short
ColumnBlockShallow(terrainHeight, dirtDepth, y) ==
    IF y > terrainHeight THEN AirBlock
    ELSE IF y = terrainHeight THEN Block("GRASS", "Y")
    ELSE IF y > terrainHeight - dirtDepth THEN Block("DIRT", "Y")
    ELSE Block("STONE", "Y")

\* lines 200-209: the block the column fill puts at y
ColumnBlock(terrainHeight, dirtDepth, y) ==
    IF y > terrainHeight THEN AirBlock
    ELSE IF y = terrainHeight THEN Block("GRASS", "Y")
    ELSE IF y >= terrainHeight - dirtDepth THEN Block("DIRT", "Y")
    ELSE Block("STONE", "Y")

\* stand-in for the detail octave of perlin under one fixed permutation table:
\* a value of {-1, 0, 1} per world column
DetailN(wx, wz) == ((wx + 2 * wz) % 3) - 1

\* generateTerrainForChunk, line 182, for world column (wx, wz) under that
\* table, the macro, region and hill octaves being 0 there
TerrainHeightAt(wx, wz) == BaseHeight + DetailAmp * DetailN(wx, wz)

\* generateTerrainForChunk, lines 200-209, for world column (wx, wz); dirtDepth
\* is minDirt where the detail octave is the only one that is not 0
TerrainBlock(wx, y, wz) == ColumnBlock(TerrainHeightAt(wx, wz), MinDirt, y)

\* the blocks of a chunk as a value: what generateMesh is handed
BlocksOf(mc) == [filled |-> mc.filled, writes |-> mc.writes]

\* Chunk::getBlock(x, y, z)
GetBlock(mc, x, y, z) ==
    IF <<x, y, z>> \in DOMAIN mc.writes THEN mc.writes[<<x, y, z>>]
    ELSE IF mc.filled
         THEN TerrainBlock(mc.chunkX * ChunkWidth + x, y, mc.chunkZ * ChunkDepth + z)
         ELSE AirBlock

\* GenerateTerrainForChunk that leaves the cells written since construction
GenerateTerrainKeepWrites(mc) == [mc EXCEPT !.filled = TRUE]

\* generateTerrainForChunk: every cell of the grid is overwritten
GenerateTerrainForChunk(mc) ==
    [mc EXCEPT !.filled = TRUE, !.writes = EmptyWrites]

\* Remesh that leaves meshDirty as it was
RemeshKeepDirty(mc) ==
    [mc EXCEPT !.meshedFrom = [built |-> TRUE, blocks |-> BlocksOf(mc)],
               !.meshUploaded = TRUE,
               !.meshedRaw = @ \/ ~mc.terrainGenerated]

\* m->mesh.generateMesh(m->chunk, manager); m->meshDirty = false; m->meshUploaded = true
Remesh(mc) ==
    [mc EXCEPT !.meshedFrom = [built |-> TRUE, blocks |-> BlocksOf(mc)],
               !.meshDirty = FALSE, !.meshUploaded = TRUE,
               !.meshedRaw = @ \/ ~mc.terrainGenerated]

---------------------------------------------------------------------------
(* ChunkManager *)

\* ChunkManager::getChunk: the chunk at c, or none
Loaded(chs, c) == c \in DOMAIN chs

\* the offsets of the four lateral neighbours of a chunk
Lateral == {<<1, 0>>, <<-1, 0>>, <<0, 1>>, <<0, -1>>}

\* one side of a chunk with no chunk loaded there
NoSide == [present |-> FALSE, filled |-> FALSE, writes |-> EmptyWrites]

\* the cell <<x, y, z>> of the chunk at offset d from a chunk touches the border
\* the two share
AtBorder(d, cell) ==
    \/ d = <<1, 0>> /\ cell[1] = 0
    \/ d = <<-1, 0>> /\ cell[1] = ChunkWidth - 1
    \/ d = <<0, 1>> /\ cell[3] = 0
    \/ d = <<0, -1>> /\ cell[3] = ChunkDepth - 1

\* the side at offset d of the chunk at k as generateMesh(chunk, manager) finds
\* it through the manager: no chunk, or the blocks of the neighbour in the cells
\* that touch the shared border
Side(chs, k, d) ==
    LET n == <<k[1] + d[1], k[2] + d[2]>>
    IN  IF ~Loaded(chs, n) THEN NoSide
        ELSE [present |-> TRUE, filled |-> chs[n].filled,
              writes |-> [cell \in {w \in DOMAIN chs[n].writes : AtBorder(d, w)} |->
                            chs[n].writes[cell]]]

\* the coordinates at which the maps old and new differ in what a neighbour's
\* mesh depends on: a chunk on one side only, or other blocks
Changed(old, new) ==
    {n \in DOMAIN old \cup DOMAIN new :
        \/ n \notin DOMAIN old
        \/ n \notin DOMAIN new
        \/ old[n].filled # new[n].filled
        \/ old[n].writes # new[n].writes}

\* a side of the chunk at k that is not the same in new as in old, given the
\* coordinates at which the two maps differ
SideChanged(old, new, k, changed) ==
    \E d \in Lateral :
        /\ <<k[1] + d[1], k[2] + d[2]>> \in changed
        /\ Side(old, k, d) # Side(new, k, d)

\* the chunks outdated after a step, given the coordinates at which the map
\* changed in it
OutdatedAmong(was, old, new, meshed, changed) ==
    {k \in DOMAIN new \ meshed :
        /\ new[k].meshUploaded
        /\ \/ k \in was
           \/ k \in DOMAIN old /\ SideChanged(old, new, k, changed)}

\* the chunks whose mesh is older than the state of one of their four sides,
\* after a step that took the map from old to new and called generateMesh on
\* the chunks of `meshed` once its changes were made; was: the chunks that
\* were so before the step.  A chunk enters the set in the step in which a
\* lateral neighbour of it is created, removed or changed in a cell at the
\* shared border, and stays until generateMesh is called on it or it leaves
\* the map
Outdated(was, old, new, meshed) ==
    OutdatedAmong(was, old, new, meshed, Changed(old, new))

\* ChunkManager::addChunk: chunks[{cx,cz}] = chunk; a chunk already at the key is
\* dropped from the map without delete. Result: the map, the number of chunks the
\* call leaked, and whether the call reported an error (it never does)
AddChunk(chs, c, mc) ==
    [chunks |-> [k \in DOMAIN chs \cup {c} |-> IF k = c THEN mc ELSE chs[k]],
     leaks  |-> IF Loaded(chs, c) THEN 1 ELSE 0,
     failed |-> FALSE]

\* ChunkManager::getNeighbors4 without the null tests
GetNeighbors4Unchecked(chs, c) ==
    <<<<c[1] + 1, c[2]>>, <<c[1] - 1, c[2]>>, <<c[1], c[2] + 1>>, <<c[1], c[2] - 1>>>>

\* ChunkManager::getNeighbors4: the vector `out`, each pointer given as the key
\* whose chunk it points to
GetNeighbors4(chs, c) ==
    SelectSeq(<<<<c[1] + 1, c[2]>>, <<c[1] - 1, c[2]>>, <<c[1], c[2] + 1>>, <<c[1], c[2] - 1>>>>,
              LAMBDA k : Loaded(chs, k))

\* ChunkManager::removeChunk, line 105: the `delete` expressions executed
RemoveChunkFrees(chs, c) == IF Loaded(chs, c) THEN 1 ELSE 0

\* RemoveChunk that empties the map when the key is present
RemoveChunkClear(chs, c) ==
    IF Loaded(chs, c) THEN [k \in {} |-> chs[c]] ELSE chs

\* ChunkManager::removeChunk: delete and erase if present, nothing otherwise
RemoveChunk(chs, c) ==
    IF Loaded(chs, c) THEN [k \in DOMAIN chs \ {c} |-> chs[k]] ELSE chs

\* DestructorFrees without the loop of the destructor
DestructorFreesNone(chs) == 0

\* ChunkManager::~ChunkManager, lines 120-122: the `delete` expressions executed
DestructorFrees(chs) == Cardinality(DOMAIN chs)

---------------------------------------------------------------------------
(* setBlockWorld and generateTrees *)

\* setBlockWorld, line 130: the early return when the owning chunk is not loaded
TargetMissing(chs, c) == ~Loaded(chs, c)

\* setBlockWorld, lines 141-142: the flag and the modified-set after a write
MarkWritten(st, c, mc) ==
    [st EXCEPT !.chunks   = [st.chunks EXCEPT ![c] = [mc EXCEPT !.meshDirty = TRUE]],
               !.modified = IF st.track THEN st.modified \cup {c} ELSE st.modified]

\* the history of setBlockWorld's writes: the chunk and cell written, the block
\* put there and the type the cell held just before
Logged(st, c, cell, block) ==
    [st EXCEPT !.log = Append(@,
        [chunk |-> c, cell |-> cell, block |-> block,
         before |-> GetBlock(st.chunks[c], cell[1], cell[2], cell[3]).type])]

\* the coordinates Chunk::getBlock and Chunk::setBlock are declared for
InExtent(x, y, z) ==
    /\ x >= 0 /\ x < ChunkWidth
    /\ y >= 0 /\ y < ChunkHeight
    /\ z >= 0 /\ z < ChunkDepth

\* a step of st's run that put no block where the caller asked for one: kind
\* "missing" (getChunk found no chunk at c), "range" (setBlockWorld returned at
\* line 135 or 136) or "extent" (getBlock was called on chunk c with coordinates
\* outside its grid)
Fault(st, kind, c) ==
    [st EXCEPT !.faults = @ \cup {[kind |-> kind, chunk |-> c]}]

\* manager->getChunk(cx, cz) as setBlockWorld and generateTrees call it: the key
\* is noted, and so is a miss
Lookup(st, c) ==
    IF Loaded(st.chunks, c) THEN [st EXCEPT !.lookups = @ \cup {c}]
    ELSE Fault([st EXCEPT !.lookups = @ \cup {c}], "missing", c)

\* setBlockWorld that creates the owning chunk when it is not loaded and writes
\* into it (lazy cross-chunk generation)
SetBlockWorldLazy(st, worldX, y, worldZ, type, axis) ==
    LET cx == getChunkCoord(ToFloat(worldX))
        cz == getChunkCoord(ToFloat(worldZ))
        c  == <<cx, cz>>
        mc == IF Loaded(st.chunks, c) THEN st.chunks[c] ELSE NewManagedChunk(cx, cz)
        all == [k \in DOMAIN st.chunks \cup {c} |-> IF k = c THEN mc ELSE st.chunks[k]]
    IN  IF y < 0 \/ y >= ChunkHeight THEN [st EXCEPT !.chunks = all]
        ELSE MarkWritten([st EXCEPT !.chunks = all], c,
               [mc EXCEPT !.writes =
                   (<<worldX - cx * ChunkWidth, y, worldZ - cz * ChunkDepth>>
                      :> Block(type, axis)) @@ mc.writes])

\* setBlockWorld(manager, worldX, y, worldZ, type, axis, modified) on
\* st = [chunks, modified, track, origin, log, lookups, faults]; track: the
\* `modified` pointer is not null; origin: the chunk the caller holds a reference
\* to (generateTrees' `chunk`); log: the writes made so far, in order; lookups:
\* the keys handed to getChunk; faults: the steps that put no block
SetBlockWorld(st, worldX, y, worldZ, type, axis) ==
    LET cx == getChunkCoord(ToFloat(worldX))
        cz == getChunkCoord(ToFloat(worldZ))
        c  == <<cx, cz>>
    IN  IF TargetMissing(st.chunks, c) THEN Lookup(st, c)
        ELSE
          LET mc     == st.chunks[c]
              localX == worldX - cx * ChunkWidth
              localZ == worldZ - cz * ChunkDepth
          IN  IF localX < 0 \/ localX >= ChunkWidth \/ localZ < 0 \/ localZ >= ChunkDepth
                THEN Fault(Lookup(st, c), "range", c)
              ELSE IF y < 0 \/ y >= ChunkHeight THEN Fault(Lookup(st, c), "range", c)
              ELSE MarkWritten(Logged(Lookup(st, c), c, <<localX, y, localZ>>,
                                      Block(type, axis)), c,
                     [mc EXCEPT !.writes =
                         (<<localX, y, localZ>> :> Block(type, axis)) @@ mc.writes])

\* generateTrees, lines 227-230: the topmost non-AIR y of a column, -1 if none
TopY(mc, x, z) ==
    LET solid == {y \in 0..(ChunkHeight - 1) : GetBlock(mc, x, y, z).type # "AIR"}
    IN  IF solid = {} THEN -1 ELSE CHOOSE y \in solid : \A y2 \in solid : y2 <= y

\* generateTrees, lines 238-241: the trunk writes, in loop order
RECURSIVE Trunk(_, _, _, _, _, _)
Trunk(st, worldX, y, worldZ, ty, actualTrunkHeight) ==
    IF ty > actualTrunkHeight \/ y + ty >= ChunkHeight THEN st
    ELSE Trunk(SetBlockWorld(st, worldX, y + ty, worldZ, "WOOD", "Y"),
               worldX, y, worldZ, ty + 1, actualTrunkHeight)

\* LeafCell without the test that the cell holds AIR
LeafCellBlind(st, bx, by, bz) ==
    IF by < 0 \/ by >= ChunkHeight THEN st
    ELSE IF ~Loaded(st.chunks, <<getChunkCoord(ToFloat(bx)), getChunkCoord(ToFloat(bz))>>)
      THEN st
    ELSE SetBlockWorld(st, bx, by, bz, "LEAVES", "Y")

\* generateTrees, lines 249-261 (and 269-300): one leaf cell.  A getBlock call
\* with coordinates outside the grid returns an indeterminate block: if its type
\* is not AIR nothing follows, if it is AIR the setBlockWorld call that follows
\* returns at line 135, so no block changes on either outcome
LeafCell(st, bx, by, bz) ==
    IF by < 0 \/ by >= ChunkHeight THEN st
    ELSE
      LET cx == getChunkCoord(ToFloat(bx))
          cz == getChunkCoord(ToFloat(bz))
      IN  IF ~Loaded(st.chunks, <<cx, cz>>) THEN Lookup(st, <<cx, cz>>)
          ELSE
            LET target == st.chunks[<<cx, cz>>]
                localX == bx - cx * ChunkWidth
                localZ == bz - cz * ChunkDepth
            IN  IF ~InExtent(localX, by, localZ)
                  THEN Fault(Lookup(st, <<cx, cz>>), "extent", <<cx, cz>>)
                ELSE IF GetBlock(target, localX, by, localZ).type = "AIR"
                  THEN SetBlockWorld(st, bx, by, bz, "LEAVES", "Y")
                  ELSE Lookup(st, <<cx, cz>>)

\* the leaf cells of one tree in the order of the loops: the two 5x5 layers
\* (lx, lz, ly nested), then per topper layer the centre and the four directions
LeafOffsets(trunkHeight, actualTrunkHeight) ==
    LET layers == [i \in 1..50 |->
                     <<((i - 1) \div 10) - 2,
                       trunkHeight - 2 + ((i - 1) % 2),
                       (((i - 1) \div 2) % 5) - 2>>]
        dirs   == <<<<0, 0>>, <<1, 0>>, <<-1, 0>>, <<0, 1>>, <<0, -1>>>>
        topper == [i \in 1..10 |->
                     <<dirs[((i - 1) % 5) + 1][1],
                       actualTrunkHeight + 1 + ((i - 1) \div 5),
                       dirs[((i - 1) % 5) + 1][2]>>]
    IN  layers \o topper

\* the canopy and topper loops over the cells lo..hi of offs, in loop order, on
\* the state the cells before lo left (the cells of the first half, then those of
\* the second); `chunk` is a reference to a chunk of the map throughout
RECURSIVE Leaves(_, _, _, _, _, _, _)
Leaves(st, worldX, y, worldZ, offs, lo, hi) ==
    IF lo > hi \/ ~Loaded(st.chunks, st.origin) THEN st
    ELSE IF lo = hi
      THEN LeafCell(st, worldX + offs[lo][1], y + offs[lo][2], worldZ + offs[lo][3])
    ELSE Leaves(Leaves(st, worldX, y, worldZ, offs, lo, (lo + hi) \div 2),
                worldX, y, worldZ, offs, ((lo + hi) \div 2) + 1, hi)

\* NotEligible without the test that the top block is GRASS
NotEligibleEmpty(mc, x, y, z) == y <= 0

\* generateTrees, line 232: the column takes no tree
NotEligible(mc, x, y, z) == y <= 0 \/ GetBlock(mc, x, y, z).type # "GRASS"

\* PlaceTree with a trunk of trunkHeight blocks
PlaceTreeFullTrunk(st, c, x, z, trunkHeight) ==
    LET mc     == st.chunks[c]
        worldX == mc.chunkX * ChunkWidth + x
        worldZ == mc.chunkZ * ChunkDepth + z
        y      == TopY(mc, x, z)
    IN  IF NotEligible(mc, x, y, z) THEN st
        ELSE Leaves(Trunk(st, worldX, y, worldZ, 1, trunkHeight), worldX, y, worldZ,
                    LeafOffsets(trunkHeight, trunkHeight), 1, 60)

\* generateTrees, lines 219-302: the body of the column loop for a column (x,z)
\* of chunk c whose rand() draw passed, with trunkHeight = 4 + rand() % 3
PlaceTree(st, c, x, z, trunkHeight) ==
    LET mc     == st.chunks[c]
        worldX == mc.chunkX * ChunkWidth + x
        worldZ == mc.chunkZ * ChunkDepth + z
        y      == TopY(mc, x, z)
    IN  IF NotEligible(mc, x, y, z) THEN st
        ELSE
          LET actualTrunkHeight == IF trunkHeight - 1 > 1 THEN trunkHeight - 1 ELSE 1
              afterTrunk == Trunk(st, worldX, y, worldZ, 1, actualTrunkHeight)
          IN  Leaves(afterTrunk, worldX, y, worldZ,
                     LeafOffsets(trunkHeight, actualTrunkHeight), 1, 60)

\* the columns of `picks` (a function column -> trunkHeight) in loop order
\* (x outer, z inner)
FirstCol(cols) ==
    CHOOSE p \in cols : \A q \in cols : p[1] < q[1] \/ (p[1] = q[1] /\ p[2] <= q[2])

RECURSIVE Sweep(_, _, _, _)
Sweep(st, c, picks, cols) ==
    IF cols = {} THEN st
    ELSE LET p == FirstCol(cols)
         IN  Sweep(PlaceTree(st, c, p[1], p[2], picks[p]), c, picks, cols \ {p})

\* RemeshModified that meshes only the chunk generateTrees was called on
RemeshModifiedOwn(st) ==
    [st EXCEPT !.chunks =
        [k \in DOMAIN st.chunks |->
            IF k \in st.modified /\ k = st.origin
              THEN Remesh(st.chunks[k]) ELSE st.chunks[k]]]

\* generateTrees, lines 306-313: every chunk of modifiedChunks that is loaded is
\* meshed, its meshDirty cleared and meshUploaded set
RemeshModified(st) ==
    [st EXCEPT !.chunks =
        [k \in DOMAIN st.chunks |->
            IF k \in st.modified THEN Remesh(st.chunks[k]) ELSE st.chunks[k]]]

\* generateTrees(chunk, manager) for the chunk at c; picks: the columns whose
\* rand() draw passed the chance, each with its trunk height.
\* Result: [chunks, modified, log, lookups, faults] with modified =
\* modifiedChunks at return
GenerateTrees(chs, c, picks) ==
    RemeshModified(Sweep([chunks |-> chs, modified |-> {}, track |-> TRUE, origin |-> c,
                          log |-> <<>>, lookups |-> {}, faults |-> {}],
                         c, picks, DOMAIN picks))

---------------------------------------------------------------------------
(* updateChunks *)

\* ToRemove with the keep-alive square taken one chunk too wide
ToRemoveWide(chs, cm, r) == {k \in DOMAIN chs : k \notin ShouldExist(cm, r + 1)}

\* updateChunks, lines 332-336: the keys collected into toRemove
ToRemove(chs, cm, r) == {k \in DOMAIN chs : k \notin ShouldExist(cm, r)}

RECURSIVE RemoveAll(_, _)
RemoveAll(chs, keys) ==
    IF keys = {} THEN chs
    ELSE LET k == CHOOSE k \in keys : TRUE
         IN  RemoveAll(RemoveChunk(chs, k), keys \ {k})

\* NeedsCreate that asks for a new ManagedChunk whatever getChunk returns
NeedsCreateAlways(chs, c) == Loaded(chs, c) \/ ~Loaded(chs, c)

\* updateChunks, line 345: the coordinate gets a new ManagedChunk
NeedsCreate(chs, c) == ~Loaded(chs, c)

\* updateChunks, lines 342-350, on m = [chunks, leaked]
RECURSIVE CreateAll(_, _)
CreateAll(m, keys) ==
    IF keys = {} THEN m
    ELSE LET k == CHOOSE k \in keys : TRUE
             r == AddChunk(m.chunks, k, NewManagedChunk(k[1], k[2]))
         IN  IF NeedsCreate(m.chunks, k)
               THEN CreateAll([chunks |-> r.chunks, leaked |-> m.leaked + r.leaks],
                              keys \ {k})
               ELSE CreateAll(m, keys \ {k})

\* NeedsTerrain without the terrainGenerated gate
NeedsTerrainUngated(mc) == TRUE

\* updateChunks, line 355
NeedsTerrain(mc) == ~mc.terrainGenerated

\* TerrainOne that leaves terrainGenerated as it was
TerrainOneUnflagged(mc) ==
    [GenerateTerrainForChunk(mc) EXCEPT
        !.meshDirty = TRUE,
        !.terrainRuns = IF mc.terrainRuns < 2 THEN mc.terrainRuns + 1 ELSE 2]

\* updateChunks, lines 356-358
TerrainOne(mc) ==
    [GenerateTerrainForChunk(mc) EXCEPT
        !.terrainGenerated = TRUE, !.meshDirty = TRUE,
        !.terrainRuns = IF mc.terrainRuns < 2 THEN mc.terrainRuns + 1 ELSE 2]

\* NeedsStructures without the structuresGenerated gate
NeedsStructuresUngated(chs, c) == Loaded(chs, c)

\* updateChunks, lines 370-373: the STRUCTURE PASS runs generateTrees at offset o
NeedsStructures(chs, c) == Loaded(chs, c) /\ ~chs[c].structuresGenerated

\* updateChunks, lines 375-376, after generateTrees returned
StructuresDone(mc) ==
    [mc EXCEPT !.structuresGenerated = TRUE, !.meshDirty = TRUE,
               !.treeRuns = IF mc.treeRuns < 2 THEN mc.treeRuns + 1 ELSE 2,
               !.treesRaw = @ \/ ~mc.terrainGenerated]

\* NeedsMesh with && in place of ||
NeedsMeshBoth(mc) == ~mc.meshUploaded /\ mc.meshDirty

\* updateChunks, line 385
NeedsMesh(mc) == ~mc.meshUploaded \/ mc.meshDirty

\* updateChunks, lines 382-390: the keys the MESH PASS visits
MeshKeys(chs, cm, r) == {k \in ShouldExist(cm, r) : Loaded(chs, k)}

\* the outcomes of the rand() draws of one generateTrees call: the columns that
\* pass the chance, each with its trunk height
Picks(candidates, heights, room) ==
    UNION {[cols -> heights] : cols \in {s \in SUBSET candidates : Cardinality(s) <= room}}

Idle == pc \in {"init", "returned"}

\* the updateChunks call that is running: again, whether it has the radius and
\* the observer chunk of the call that returned before it; lookups and faults,
\* what its generateTrees calls looked up (as <<chunk of the call, key>>) and
\* failed to write so far
Running(again, lookups, faults) ==
    [op |-> "updateChunks", again |-> again, lookups |-> lookups, faults |-> faults]

\* updateChunks entered: lines 317-339 (camChunk, shouldExist, the removals)
UpdateChunksCall(pos, r) ==
    /\ Idle
    /\ LET cm == <<getChunkCoord(pos[1]), getChunkCoord(pos[2])>>
       IN  /\ cam' = cm
           /\ chunks' = RemoveAll(chunks, ToRemove(chunks, cm, r))
           /\ call' = Running(pc = "returned" /\ cm = cam /\ r = radius, {}, {})
    /\ radius' = r
    /\ stale' = Outdated(stale, chunks, chunks', {})
    /\ pc' = "create"
    /\ UNCHANGED <<perm, leaked, todo, ranTrees, meshedInTick, writeAfterMesh,
                   treesPlaced, modified>>

\* lines 341-350
CreateStep ==
    /\ pc = "create"
    /\ LET m == CreateAll([chunks |-> chunks, leaked |-> leaked], ShouldExist(cam, radius))
       IN  chunks' = m.chunks /\ leaked' = m.leaked
    /\ pc' = "terrain"
    /\ stale' = Outdated(stale, chunks, chunks', {})
    /\ UNCHANGED <<perm, cam, radius, todo, ranTrees, meshedInTick, writeAfterMesh,
                   treesPlaced, modified, call>>

\* lines 352-360: TERRAIN PASS
TerrainPass ==
    /\ pc = "terrain"
    /\ chunks' = [k \in DOMAIN chunks |->
                    IF NeedsTerrain(chunks[k]) THEN TerrainOne(chunks[k]) ELSE chunks[k]]
    /\ todo' = StructureOffsets(radius)
    /\ pc' = "structure"
    /\ stale' = Outdated(stale, chunks, chunks', {})
    /\ UNCHANGED <<perm, leaked, cam, radius, ranTrees, meshedInTick, writeAfterMesh,
                   treesPlaced, modified, call>>

\* the chunk coordinate of offset o of the STRUCTURE PASS
At(o) == <<cam[1] + o[1], cam[2] + o[2]>>

\* the positions of todo at which the loop body reaches generateTrees
Pending == {i \in 1..Len(todo) : NeedsStructures(chunks, At(todo[i]))}

\* StructuresReturned that unloads the neighbouring chunks generateTrees wrote
\* into, for them to be generated again
StructuresReturnedUnload(c, res) ==
    /\ chunks' = [k \in (DOMAIN res.chunks \ res.modified) \cup {c} |->
                    IF k = c THEN StructuresDone(res.chunks[c]) ELSE res.chunks[k]]
    /\ stale' = Outdated(stale, chunks, chunks', res.modified)
    /\ call' = Running(call.again, call.lookups \cup {<<c, k>> : k \in res.lookups},
                       call.faults \cup res.faults)
    /\ meshedInTick' = (meshedInTick \/ res.modified # {})
    /\ writeAfterMesh' = (writeAfterMesh \/ (meshedInTick /\ res.modified # {}))

\* lines 373-376: generateTrees has returned res for the chunk at c
StructuresReturned(c, res) ==
    /\ chunks' = [res.chunks EXCEPT ![c] = StructuresDone(res.chunks[c])]
    /\ stale' = Outdated(stale, chunks, chunks', res.modified)
    /\ call' = Running(call.again, call.lookups \cup {<<c, k>> : k \in res.lookups},
                       call.faults \cup res.faults)
    /\ meshedInTick' = (meshedInTick \/ res.modified # {})
    /\ writeAfterMesh' = (writeAfterMesh \/ (meshedInTick /\ res.modified # {}))

\* lines 362-379: the loop runs on to the next offset that reaches generateTrees
\* and executes its body
StructureStep ==
    /\ pc = "structure"
    /\ Pending # {}
    /\ LET i == CHOOSE i \in Pending : \A j \in Pending : i <= j
           c == At(todo[i])
       IN  \E picks \in Picks(TreeCols, TrunkHeights, MaxTrees - treesPlaced) :
             /\ StructuresReturned(c, GenerateTrees(chunks, c, picks))
             /\ treesPlaced' = treesPlaced + Cardinality(DOMAIN picks)
             /\ ranTrees' = ranTrees \cup {c}
             /\ todo' = SubSeq(todo, i + 1, Len(todo))
    /\ UNCHANGED <<perm, leaked, pc, cam, radius, modified>>

\* the STRUCTURE PASS loop ends
StructureEnd ==
    /\ pc = "structure"
    /\ Pending = {}
    /\ todo' = <<>>
    /\ pc' = "mesh"
    /\ UNCHANGED <<perm, stale, chunks, leaked, cam, radius, ranTrees, meshedInTick,
                   writeAfterMesh, treesPlaced, modified, call>>

\* lines 381-390: MESH PASS, then updateChunks returns
MeshPass ==
    /\ pc = "mesh"
    /\ chunks' = [k \in DOMAIN chunks |->
                    IF k \in MeshKeys(chunks, cam, radius) /\ NeedsMesh(chunks[k])
                      THEN Remesh(chunks[k]) ELSE chunks[k]]
    /\ pc' = "returned"
    /\ stale' = Outdated(stale, chunks, chunks',
                         {k \in MeshKeys(chunks, cam, radius) : NeedsMesh(chunks[k])})
    /\ ranTrees' = {}
    /\ meshedInTick' = FALSE
    /\ writeAfterMesh' = FALSE
    /\ call' = Running(FALSE, {}, {})
    /\ UNCHANGED <<perm, leaked, cam, radius, todo, treesPlaced, modified>>

\* the ChunkManager is destroyed between two frames: the destructor deletes the
\* chunks of the map, and the map goes with the manager; a chunk it does not
\* delete stays allocated with nothing pointing to it
DestroyManager ==
    /\ Idle
    /\ chunks' = [k \in {} |-> NewManagedChunk(0, 0)]
    /\ stale' = Outdated(stale, chunks, chunks', {})
    /\ leaked' = leaked + (Cardinality(DOMAIN chunks) - DestructorFrees(chunks))
    /\ pc' = "destroyed"
    /\ call' = [op |-> "~ChunkManager", live |-> Cardinality(DOMAIN chunks),
                freed |-> DestructorFrees(chunks)]
    /\ UNCHANGED <<perm, cam, radius, todo, ranTrees, meshedInTick, writeAfterMesh,
                   treesPlaced, modified>>

---------------------------------------------------------------------------
(* Specifications *)

Init ==
    /\ chunks = [k \in {} |-> NewManagedChunk(0, 0)]
    /\ leaked = 0
    /\ pc = "init"
    /\ cam = <<0, 0>>
    /\ radius = 0
    /\ todo = <<>>
    /\ ranTrees = {}
    /\ meshedInTick = FALSE
    /\ writeAfterMesh = FALSE
    /\ treesPlaced = 0
    /\ modified = {}
    /\ perm = ZeroTable
    /\ stale = {}
    /\ call = [op |-> "none"]

Tick == \E pos \in Positions, r \in Radii : UpdateChunksCall(pos, r)

\* a program whose frames call updateChunks with a moving observer, and that
\* ends by destroying the manager
Next ==
    \/ Tick
    \/ CreateStep
    \/ TerrainPass
    \/ StructureStep
    \/ StructureEnd
    \/ MeshPass
    \/ DestroyManager

Spec == Init /\ [][Next]_vars

---------------------------------------------------------------------------
(* Direct calls of the functions world.h declares *)

\* manager.addChunk(cx, cz, new ManagedChunk(cx, cz))
AddChunkCall(c) ==
    /\ Idle
    /\ LET r == AddChunk(chunks, c, NewManagedChunk(c[1], c[2]))
       IN  /\ leaked + r.leaks <= MaxLeaked
           /\ chunks' = r.chunks
           /\ leaked' = leaked + r.leaks
           /\ call' = [op |-> "addChunk", live |-> Loaded(chunks, c), failed |-> r.failed]
    /\ stale' = Outdated(stale, chunks, chunks', {})
    /\ UNCHANGED <<perm, pc, cam, radius, todo, ranTrees, meshedInTick, writeAfterMesh,
                   treesPlaced, modified>>

\* manager.removeChunk(cx, cz)
RemoveChunkCall(c) ==
    /\ Idle
    /\ chunks' = RemoveChunk(chunks, c)
    /\ stale' = Outdated(stale, chunks, chunks', {})
    /\ call' = [op |-> "removeChunk", live |-> Loaded(chunks, c), c |-> c,
                freed |-> RemoveChunkFrees(chunks, c)]
    /\ UNCHANGED <<perm, leaked, pc, cam, radius, todo, ranTrees, meshedInTick,
                   writeAfterMesh, treesPlaced, modified>>

\* setBlockWorld(&manager, worldX, y, worldZ, type, axis, track ? &modified : nullptr)
SetBlockWorldCall(w, type, track) ==
    /\ Idle
    /\ LET c   == <<getChunkCoord(ToFloat(w[1])), getChunkCoord(ToFloat(w[3]))>>
           res == SetBlockWorld([chunks |-> chunks, modified |-> modified,
                                 track |-> track, origin |-> c, log |-> <<>>,
                                 lookups |-> {}, faults |-> {}],
                                w[1], w[2], w[3], type, "X")
       IN  /\ chunks' = res.chunks
           /\ modified' = res.modified
           /\ call' = [op |-> "setBlockWorld", loaded |-> Loaded(chunks, c),
                       inGrid |-> (w[2] >= 0 /\ w[2] < ChunkHeight), track |-> track,
                       w |-> w, type |-> type]
    /\ stale' = Outdated(stale, chunks, chunks', {})
    /\ UNCHANGED <<perm, leaked, pc, cam, radius, todo, ranTrees, meshedInTick,
                   writeAfterMesh, treesPlaced>>

\* generateTerrainForChunk(mc->chunk) on a loaded chunk
GenerateTerrainCall(c) ==
    /\ Idle
    /\ Loaded(chunks, c)
    /\ chunks' = [chunks EXCEPT ![c] = GenerateTerrainForChunk(chunks[c])]
    /\ call' = [op |-> "generateTerrainForChunk", c |-> c]
    /\ stale' = Outdated(stale, chunks, chunks', {})
    /\ UNCHANGED <<perm, leaked, pc, cam, radius, todo, ranTrees, meshedInTick,
                   writeAfterMesh, treesPlaced, modified>>

\* the entries of a history of writes, as a set
Entries(log) == {log[i] : i \in 1..Len(log)}

\* the map generateTrees leaves, and the call with the writes it made
TreesReturned(c, picks, res) ==
    /\ chunks' = res.chunks
    /\ stale' = Outdated(stale, chunks, chunks', res.modified)
    /\ call' = [op |-> "generateTrees", c |-> c, picks |-> picks,
                writes |-> Entries(res.log), lookups |-> res.lookups,
                faults |-> res.faults]

\* generateTrees(mc->chunk, &manager) on a loaded chunk, the rand() draws
\* passing at columns of cols with trunk heights of heights
GenerateTreesCall(c, cols, heights) ==
    /\ Idle
    /\ Loaded(chunks, c)
    /\ \E picks \in Picks(cols, heights, MaxTrees - treesPlaced) :
         /\ TreesReturned(c, picks, GenerateTrees(chunks, c, picks))
         /\ treesPlaced' = treesPlaced + Cardinality(DOMAIN picks)
    /\ UNCHANGED <<perm, leaked, pc, cam, radius, todo, ranTrees, meshedInTick,
                   writeAfterMesh, modified>>

\* a program that drives the manager and the world functions itself
NextApi ==
    \/ \E c \in ApiCoords : AddChunkCall(c)
    \/ \E c \in ApiCoords : RemoveChunkCall(c)
    \/ \E w \in ApiCells, t \in ApiTypes, track \in BOOLEAN : SetBlockWorldCall(w, t, track)
    \/ \E c \in ApiCoords : GenerateTerrainCall(c)
    \/ \E c \in ApiCoords : GenerateTreesCall(c, TreeCols, TrunkHeights)

SpecApi == Init /\ [][NextApi]_vars

---------------------------------------------------------------------------
(* The manager as a container *)

\* manager.getNeighbors4(cx, cz)
GetNeighbors4Call(c) ==
    /\ Idle
    /\ call' = [op |-> "getNeighbors4", c |-> c, out |-> GetNeighbors4(chunks, c)]
    /\ UNCHANGED <<perm, stale, chunks, leaked, pc, cam, radius, todo, ranTrees, meshedInTick,
                   writeAfterMesh, treesPlaced, modified>>

NextManager ==
    \/ \E c \in ManagerCoords : AddChunkCall(c)
    \/ \E c \in ManagerCoords : RemoveChunkCall(c)
    \/ \E c \in ManagerCoords : GetNeighbors4Call(c)
    \/ \E c \in ManagerCoords : GenerateTerrainCall(c)

SpecManager == Init /\ [][NextManager]_vars

---------------------------------------------------------------------------
(* generateTrees on generated terrain *)

\* the maps generateTrees is called on: chunk (0,0) alone, chunks (0,0) and
\* (1,0), each as the TERRAIN PASS leaves a new chunk, and chunk (0,0) next to a
\* chunk (1,0) that was added and has no terrain yet
TreeWorlds ==
    {[k \in ks |-> TerrainOne(NewManagedChunk(k[1], k[2]))] :
        ks \in {{<<0, 0>>}, CanopyCoords}}
    \cup {[k \in CanopyCoords |->
              IF k = <<0, 0>> THEN TerrainOne(NewManagedChunk(k[1], k[2]))
                             ELSE NewManagedChunk(k[1], k[2])]}

InitTrees ==
    /\ chunks \in TreeWorlds
    /\ leaked = 0
    /\ pc = "init"
    /\ cam = <<0, 0>>
    /\ radius = 0
    /\ todo = <<>>
    /\ ranTrees = {}
    /\ meshedInTick = FALSE
    /\ writeAfterMesh = FALSE
    /\ treesPlaced = 0
    /\ modified = {}
    /\ perm = ZeroTable
    /\ stale = {}
    /\ call = [op |-> "none"]

NextTrees == \E c \in CanopyCoords : GenerateTreesCall(c, CanopyCols, CanopyHeights)

SpecTrees == InitTrees /\ [][NextTrees]_vars

---------------------------------------------------------------------------
(* The functions of one world column and of one coordinate *)

\* the five perlin samples of a column
Noise ==
    [macro : NoiseSamples, region : NoiseSamples, mask : NoiseSamples,
     detail : NoiseSamples, hill : NoiseSamples]

\* the height, the dirt depth and the 128 block types of a column
Column(n, h, d) ==
    [op |-> "terrainColumn", noise |-> n, height |-> h, dirtDepth |-> d,
     column |-> [y \in 0..(ChunkHeight - 1) |-> ColumnBlock(h, d, y).type]]

\* generateTerrainForChunk, lines 151-209, for one column, whose perlin samples
\* are call.noise
TerrainColumnCall ==
    /\ call.op = "pending"
    /\ call.fn = "terrainColumn"
    /\ call' = Column(call.noise, TerrainHeight(call.noise),
                      DirtDepth(call.noise, TerrainHeight(call.noise)))
    /\ UNCHANGED <<perm, stale, chunks, leaked, pc, cam, radius, todo, ranTrees, meshedInTick,
                   writeAfterMesh, treesPlaced, modified>>

\* the chunk coordinate cx found for world coordinate w, and the local coordinate
Coord(w, cx) ==
    [op |-> "getChunkCoord", w |-> w, coord |-> cx, local |-> w - cx * ChunkWidth]

\* setBlockWorld, lines 127 and 132 (generateTrees, lines 251 and 256), for the
\* world coordinate call.w
GetChunkCoordCall ==
    /\ call.op = "pending"
    /\ call.fn = "getChunkCoord"
    /\ call' = Coord(call.w, getChunkCoord(ToFloat(call.w)))
    /\ UNCHANGED <<perm, stale, chunks, leaked, pc, cam, radius, todo, ranTrees, meshedInTick,
                   writeAfterMesh, treesPlaced, modified>>

\* a manager as constructed and one call to make, with its arguments
InitFn ==
    /\ chunks = [k \in {} |-> NewManagedChunk(0, 0)]
    /\ leaked = 0
    /\ pc = "init"
    /\ cam = <<0, 0>>
    /\ radius = 0
    /\ todo = <<>>
    /\ ranTrees = {}
    /\ meshedInTick = FALSE
    /\ writeAfterMesh = FALSE
    /\ treesPlaced = 0
    /\ modified = {}
    /\ perm = ZeroTable
    /\ stale = {}
    /\ call \in {[op |-> "pending", fn |-> "terrainColumn", noise |-> n] : n \in Noise}
               \cup {[op |-> "pending", fn |-> "getChunkCoord", w |-> w] : w \in CoordInputs}

NextFn ==
    \/ TerrainColumnCall
    \/ GetChunkCoordCall

SpecFn == InitFn /\ [][NextFn]_vars

---------------------------------------------------------------------------
(* The noise table *)

\* initPerlin(), rand() returning the values of call.draws
InitPerlinCall ==
    /\ call.op = "pending"
    /\ call.fn = "initPerlin"
    /\ perm' = InitPerlin(call.draws)
    /\ call' = [op |-> "initPerlin", draws |-> call.draws]
    /\ UNCHANGED <<stale, chunks, leaked, pc, cam, radius, todo, ranTrees, meshedInTick,
                   writeAfterMesh, treesPlaced, modified>>

\* perlin(x, y) with floor(x) = fx and floor(y) = fy, once initPerlin has run
PerlinCall(fx, fy) ==
    /\ call.op \in {"initPerlin", "perlin"}
    /\ call' = [op |-> "perlin", X |-> Lattice(fx), Y |-> Lattice(fy),
                indices |-> PerlinIndices(perm, Lattice(fx), Lattice(fy))]
    /\ UNCHANGED <<perm, stale, chunks, leaked, pc, cam, radius, todo, ranTrees, meshedInTick,
                   writeAfterMesh, treesPlaced, modified>>

\* a program before its initPerlin call, with the values rand() is going to return
InitNoise ==
    /\ chunks = [k \in {} |-> NewManagedChunk(0, 0)]
    /\ leaked = 0
    /\ pc = "init"
    /\ cam = <<0, 0>>
    /\ radius = 0
    /\ todo = <<>>
    /\ ranTrees = {}
    /\ meshedInTick = FALSE
    /\ writeAfterMesh = FALSE
    /\ treesPlaced = 0
    /\ modified = {}
    /\ perm = ZeroTable
    /\ stale = {}
    /\ call \in {[op |-> "pending", fn |-> "initPerlin", draws |-> d] :
                    d \in [1..(PermSize - 1) -> RandOutcomes]}

NextNoise ==
    \/ InitPerlinCall
    \/ \E fx \in LatticeCoords, fy \in LatticeCoords : PerlinCall(fx, fy)

SpecNoise == InitNoise /\ [][NextNoise]_vars

---------------------------------------------------------------------------
(* The world far from the origin *)

TickFar == \E pos \in FarPositions, r \in FarRadii : UpdateChunksCall(pos, r)

\* a program whose observer is 2^24 blocks out and that places blocks there
NextFar ==
    \/ TickFar
    \/ CreateStep
    \/ TerrainPass
    \/ StructureStep
    \/ StructureEnd
    \/ MeshPass
    \/ \E w \in FarCells, t \in ApiTypes, track \in BOOLEAN : SetBlockWorldCall(w, t, track)

SpecFar == Init /\ [][NextFar]_vars

---------------------------------------------------------------------------
(* Properties *)

\* the square of Chebyshev radius d around chunk coordinate cm
ChebSquare(cm, d) ==
    {c \in ((cm[1] - d - 1)..(cm[1] + d + 1)) \X ((cm[2] - d - 1)..(cm[2] + d + 1)) :
        Abs(c[1] - cm[1]) <= d /\ Abs(c[2] - cm[2]) <= d}

\* chunk coordinate c lies in the Euclidean disc of radius r around cm
InEuclid(c, cm, r) ==
    (c[1] - cm[1]) * (c[1] - cm[1]) + (c[2] - cm[2]) * (c[2] - cm[2]) <= r * r

\* the eight chunk coordinates at Chebyshev distance 1 from c
Around8(c) == ChebSquare(c, 1) \ {c}

\* C1: when updateChunks(manager, pos, R) returns, the coordinates in the manager
\* are exactly those within Chebyshev distance R+1 of the observer's chunk
C1_StreamingSet ==
    pc = "returned" => DOMAIN chunks = ChebSquare(cam, radius + 1)

\* a tick returned with radius 0 around a camera chunk while a chunk that got its
\* structures in an earlier tick, around another centre, is still loaded
C1_Witness ==
    /\ pc = "returned"
    /\ radius = 0
    /\ \E c \in DOMAIN chunks : c # cam /\ chunks[c].structuresGenerated

\* C2: generateTrees runs at most once on a chunk instance: never on one whose
\* structuresGenerated is set, and the flag is set by the run and stays set
C2_TreesAtMostOnce ==
    \A c \in DOMAIN chunks :
        /\ chunks[c].treeRuns <= 1
        /\ chunks[c].structuresGenerated = (chunks[c].treeRuns = 1)

\* the STRUCTURE PASS is over, and a chunk of the disc that already had its
\* structures was passed over by it
C2_Witness ==
    /\ pc = "mesh"
    /\ \E c \in DOMAIN chunks :
          /\ InEuclid(c, cam, radius)
          /\ chunks[c].treeRuns = 1
          /\ c \notin ranTrees

\* C3: when the STRUCTURE PASS is about to run generateTrees on a chunk, the
\* eight chunks around it are loaded and have terrainGenerated set
C3_NeighboursReady ==
    (pc = "structure" /\ Pending # {}) =>
        LET i == CHOOSE i \in Pending : \A j \in Pending : i <= j
        IN  \A n \in Around8(At(todo[i])) :
                Loaded(chunks, n) /\ chunks[n].terrainGenerated

\* generateTrees is about to run on a chunk at the rim of the disc of radius 1
C3_Witness ==
    /\ pc = "structure"
    /\ radius = 1
    /\ \E i \in Pending : At(todo[i]) # cam /\ \A j \in Pending : i <= j

\* C4: within a tick no generateMesh call precedes a block write of the
\* STRUCTURE PASS
C4_NoWriteAfterMesh == ~writeAfterMesh

\* C5: after the TERRAIN PASS, and so when updateChunks returns, every loaded
\* chunk has terrainGenerated set and has had exactly one run of the terrain
\* generator; no chunk instance ever has a second run
C5_TerrainOnce ==
    /\ \A c \in DOMAIN chunks :
          /\ chunks[c].terrainRuns <= 1
          /\ chunks[c].terrainGenerated = (chunks[c].terrainRuns = 1)
    /\ pc \in {"structure", "mesh", "returned"} =>
          \A c \in DOMAIN chunks : chunks[c].terrainGenerated

\* the TERRAIN PASS has run over a map that held chunks of earlier ticks next to
\* chunks created in this one
C5_Witness ==
    /\ pc = "structure"
    /\ \E c \in DOMAIN chunks : chunks[c].meshUploaded
    /\ \E c \in DOMAIN chunks : ~chunks[c].meshUploaded

\* C6: when updateChunks returns every loaded chunk of the Euclidean disc of
\* radius R has structuresGenerated set, and generateTrees was run in the tick on
\* no chunk outside that disc
C6_StructuresInDisc ==
    /\ pc \in {"mesh", "returned"} =>
          \A c \in DOMAIN chunks :
              InEuclid(c, cam, radius) => chunks[c].structuresGenerated
    /\ \A c \in ranTrees : InEuclid(c, cam, radius)

\* a tick of radius 1 has run generateTrees on the five chunks of the disc, and
\* the corner chunk of the square of radius 1 is loaded without structures
C6_Witness ==
    /\ pc = "mesh"
    /\ radius = 1
    /\ Cardinality(ranTrees) = 5
    /\ Loaded(chunks, <<cam[1] + 1, cam[2] + 1>>)
    /\ ~chunks[<<cam[1] + 1, cam[2] + 1>>].structuresGenerated

\* C7: when updateChunks returns every loaded chunk has meshUploaded set and
\* meshDirty clear, and its mesh was built from the blocks it holds now
C7_MeshCurrent ==
    pc = "returned" =>
        \A c \in DOMAIN chunks :
            /\ chunks[c].meshUploaded
            /\ ~chunks[c].meshDirty
            /\ chunks[c].meshedFrom = [built |-> TRUE, blocks |-> BlocksOf(chunks[c])]

\* a tick returned after two trees were placed, with a chunk that holds blocks
\* written by the tree of a neighbouring chunk and has no structures of its own
C7_Witness ==
    /\ pc = "returned"
    /\ treesPlaced = 2
    /\ \E c \in DOMAIN chunks :
          /\ ~chunks[c].structuresGenerated
          /\ chunks[c].writes # EmptyWrites

\* C8: over the ticks of updateChunks addChunk is never called with a coordinate
\* that is in the manager, so no live chunk is dropped from the map undeleted
C8_NoLiveOverwrite == leaked = 0

\* the creation step has run over a map that held live chunks: it created the
\* missing ones and passed over the live ones
C8_Witness ==
    /\ pc = "terrain"
    /\ \E c \in DOMAIN chunks : chunks[c].terrainGenerated
    /\ \E c \in DOMAIN chunks : ~chunks[c].terrainGenerated

\* C9: addChunk at a coordinate that holds a live chunk is reported as an error
\* and leaves no chunk allocated and unreachable
C9_DoubleInsertDetected ==
    (call.op = "addChunk" /\ call.live) => (call.failed /\ leaked = 0)

\* C10: setBlockWorld targeting a cell whose owning chunk is not loaded changes
\* no block, no flag, not the modified-set, and creates no chunk
C10_MissingChunkNoOp ==
    [][(call'.op = "setBlockWorld" /\ ~call'.loaded) =>
          (chunks' = chunks /\ modified' = modified /\ leaked' = leaked)]_vars

\* setBlockWorld has just been called on a cell of a chunk that is not loaded,
\* with a modified-set, while another chunk is loaded with a clean mesh
C10_Witness ==
    /\ call.op = "setBlockWorld"
    /\ ~call.loaded
    /\ call.inGrid
    /\ call.track
    /\ \E c \in DOMAIN chunks : ~chunks[c].meshDirty

\* C11: when generateTrees returns, every chunk in which it changed a block has
\* meshDirty clear and meshUploaded set, and its mesh was built from the blocks
\* the chunk holds at the return, that is after the last of the changes
C11_ModifiedRemeshed ==
    [][call'.op = "generateTrees" =>
          \A k \in DOMAIN chunks \cap DOMAIN chunks' :
              BlocksOf(chunks'[k]) # BlocksOf(chunks[k]) =>
                  /\ ~chunks'[k].meshDirty
                  /\ chunks'[k].meshUploaded
                  /\ chunks'[k].meshedFrom =
                        [built |-> TRUE, blocks |-> BlocksOf(chunks'[k])]]_vars

\* generateTrees has returned after writing into the chunk it was called on and
\* into the neighbour, and a second call has then written into both again
C11_Witness ==
    /\ call.op = "generateTrees"
    /\ {e.chunk : e \in call.writes} = CanopyCoords
    /\ \E k \in DOMAIN chunks :
          \E cell \in DOMAIN chunks[k].writes :
              \A e \in call.writes : ~(e.chunk = k /\ e.cell = cell)

\* C12: every LEAVES block generateTrees writes, in the chunk it was called on or
\* in a neighbour, goes into a cell that held AIR just before the write
C12_LeavesOnlyIntoAir ==
    call.op = "generateTrees" =>
        \A e \in call.writes : e.block.type = "LEAVES" => e.before = "AIR"

\* a canopy layer was stamped around the trunk cell of its height, with a leaf on
\* one side of the trunk and terrain on the other
C12_Witness ==
    /\ call.op = "generateTrees"
    /\ \E e, f \in call.writes :
          /\ e.block.type = "WOOD"
          /\ f.block.type = "LEAVES"
          /\ f.chunk = e.chunk
          /\ f.cell = <<e.cell[1] + 1, e.cell[2], e.cell[3]>>
          /\ GetBlock(chunks[e.chunk], e.cell[1] - 1, e.cell[2], e.cell[3]).type = "DIRT"

\* the WOOD writes of the last generateTrees call
WoodWrites == {e \in call.writes : e.block.type = "WOOD"}

\* the columns <<chunk, x, z>> the last generateTrees call put a trunk in
TrunkColumns == {<<e.chunk, e.cell[1], e.cell[3]>> : e \in WoodWrites}

\* the heights of the trunk cells of column col
TrunkYs(col) ==
    {e.cell[2] : e \in {w \in WoodWrites : <<w.chunk, w.cell[1], w.cell[3]>> = col}}

\* the trunk of column col is a run of WOOD with axis Y that starts on top of a
\* GRASS block and has a length in lens
TrunkRun(col, lens) ==
    LET ys == TrunkYs(col)
    IN  /\ \E y \in 0..(ChunkHeight - 1) :
              /\ GetBlock(chunks[col[1]], col[2], y, col[3]).type = "GRASS"
              /\ ys = (y + 1)..(y + Cardinality(ys))
        /\ Cardinality(ys) \in lens
        /\ \A y \in ys : GetBlock(chunks[col[1]], col[2], y, col[3]) = Block("WOOD", "Y")

TopIsGrass(mc, x, z) ==
    \E y \in 0..(ChunkHeight - 1) :
        /\ GetBlock(mc, x, y, z).type = "GRASS"
        /\ \A y2 \in (y + 1)..(ChunkHeight - 1) : GetBlock(mc, x, y2, z).type = "AIR"

\* C14: generateTrees puts a trunk only in a column of the chunk whose topmost
\* non-AIR block was GRASS; a column topped by LEAVES, WOOD, DIRT or STONE, or
\* holding only AIR, gets none
C14_OnlyOnGrass ==
    [][call'.op = "generateTrees" =>
          \A e \in call'.writes :
              e.block.type = "WOOD" =>
                  /\ e.chunk = call'.c
                  /\ TopIsGrass(chunks[e.chunk], e.cell[1], e.cell[3])]_vars

\* the draws of the last call passed at a column topped by the LEAVES of an
\* earlier tree, and the column got no trunk
C14_Witness ==
    /\ call.op = "generateTrees"
    /\ \E p \in DOMAIN call.picks :
          /\ <<call.c, p[1], p[2]>> \notin TrunkColumns
          /\ GetBlock(chunks[call.c], p[1], TopY(chunks[call.c], p[1], p[2]), p[2]).type
                = "LEAVES"

\* the heights at which the column of the last call holds type t
Cells(t) == {y \in 0..(ChunkHeight - 1) : call.column[y] = t}

\* C15: the column generateTerrainForChunk fills is, read top-down, AIR, one
\* GRASS at the terrain height, a contiguous run of dirtDepth DIRT blocks, and
\* STONE down to y = 0; with all five samples 0 it is GRASS at 48, DIRT at 46
\* and 47, STONE below and AIR above
C15_ColumnLayers ==
    call.op = "terrainColumn" =>
        /\ \E g \in 0..(ChunkHeight - 1), d \in 0..ChunkHeight :
              /\ g = call.height
              /\ d = call.dirtDepth
              /\ Cells("AIR") = (g + 1)..(ChunkHeight - 1)
              /\ Cells("GRASS") = {g}
              /\ Cells("DIRT") = (g - d)..(g - 1)
              /\ Cells("STONE") = 0..(g - d - 1)
        /\ (\A o \in DOMAIN call.noise : call.noise[o] = 0) =>
              /\ Cells("GRASS") = {48}
              /\ Cells("DIRT") = {46, 47}
              /\ Cells("STONE") = 0..45
              /\ Cells("AIR") = 49..127

\* a column on a hill, with samples inside [-1,1], whose dirt was thinned to one
\* block above the stone threshold
C15_Witness ==
    /\ call.op = "terrainColumn"
    /\ \A o \in DOMAIN call.noise : call.noise[o] \in (-16)..16
    /\ call.noise.mask = 16
    /\ call.dirtDepth = 1
    /\ Cells("DIRT") = {call.height - 1}
    /\ Cells("STONE") # {}

\* C16: the terrain height lies in 0..127 for every combination of the five
\* perlin samples
C16_HeightInRange ==
    call.op = "terrainColumn" => call.height \in 0..(ChunkHeight - 1)

\* the lowest column: every octave at its most negative sample, under a full
\* hill mask
C16_Witness ==
    /\ call.op = "terrainColumn"
    /\ call.noise = [macro |-> -24, region |-> -24, mask |-> 24, detail |-> -24,
                     hill |-> -24]
    /\ call.height = 2

\* C18: getChunkCoord(w) = floor(w / 16) for every integer world coordinate w, and
\* the local coordinate w - 16 * getChunkCoord(w) lies in 0..15
C18_ChunkCoordFloor ==
    call.op = "getChunkCoord" =>
        /\ 16 * call.coord <= call.w
        /\ call.w < 16 * call.coord + 16
        /\ call.local \in 0..(ChunkWidth - 1)
        /\ call.coord * ChunkWidth + call.local = call.w

\* the cells of a chunk that hold something written after its construction, and
\* the cells of its column (0, 8)
Probes(mc) == DOMAIN mc.writes \cup {<<0, y, 8>> : y \in 0..(ChunkHeight - 1)}

C19_RemoveExact ==
    [][call'.op = "removeChunk" =>
          /\ leaked' = leaked
          /\ IF ~Loaded(chunks, call'.c)
               THEN chunks' = chunks /\ call'.freed = 0
               ELSE /\ call'.freed = 1
                    /\ ~Loaded(chunks', call'.c)
                    /\ DOMAIN chunks' = DOMAIN chunks \ {call'.c}
                    /\ \A k \in DOMAIN chunks' : chunks'[k] = chunks[k]]_vars

\* a chunk was removed from a map that still holds a chunk with terrain and one
\* without
C19_Witness ==
    /\ call.op = "removeChunk"
    /\ call.live
    /\ \E k \in DOMAIN chunks : chunks[k].filled
    /\ \E k \in DOMAIN chunks : ~chunks[k].filled

\* C20: getNeighbors4(cx, cz) returns the chunks loaded at (cx+1,cz), (cx-1,cz),
\* (cx,cz+1) and (cx,cz-1), each once and nothing else, and leaves the manager
\* as it was
C20_NeighboursExact ==
    [][call'.op = "getNeighbors4" =>
          LET out == call'.out
              c   == call'.c
          IN  /\ chunks' = chunks
              /\ leaked' = leaked
              /\ \A i, j \in 1..Len(out) : out[i] = out[j] => i = j
              /\ {out[i] : i \in 1..Len(out)}
                    = {k \in DOMAIN chunks : Abs(k[1] - c[1]) + Abs(k[2] - c[2]) = 1}]_vars

\* the four chunks of the block are loaded and the neighbours of one were asked
\* for: the two cardinal ones come back, the chunk itself and the diagonal one
\* do not
C20_Witness ==
    /\ call.op = "getNeighbors4"
    /\ DOMAIN chunks = ManagerCoords
    /\ Len(call.out) = 2

\* C21: every Chunk::getBlock and Chunk::setBlock call that generateTerrainForChunk,
\* generateTrees and setBlockWorld issue has its coordinates inside the grid of
\* the chunk, 0 <= x < 16, 0 <= y < 128, 0 <= z < 16, whatever the chunk
\* coordinate, the surface height, the trunk height and the column of the tree
C21_AccessInExtent ==
    call.op \in {"updateChunks", "generateTrees"} =>
        \A f \in call.faults : f.kind # "extent"

\* C22: over the ticks of updateChunks neither generateTrees nor generateMesh is
\* invoked on a chunk whose terrainGenerated flag is false, the generateMesh
\* calls generateTrees makes on neighbouring chunks included
C22_GeneratedBeforeUse ==
    \A c \in DOMAIN chunks : ~chunks[c].treesRaw /\ ~chunks[c].meshedRaw

\* in the STRUCTURE PASS a generateTrees call has written into a neighbouring
\* chunk outside the disc and meshed it
C22_Witness ==
    /\ pc = "structure"
    /\ call.op = "updateChunks"
    /\ \E l \in call.lookups :
          /\ l[2] # l[1]
          /\ ~InEuclid(l[2], cam, radius)
          /\ chunks[l[2]].writes # EmptyWrites
          /\ chunks[l[2]].meshUploaded
          /\ ~chunks[l[2]].meshDirty

\* the chunk coordinate that owns world cell w = <<worldX, y, worldZ>>, and the
\* cell's coordinates inside that chunk
Owner(w) == <<w[1] \div ChunkWidth, w[3] \div ChunkDepth>>
LocalCell(w) == <<w[1] % ChunkWidth, w[2], w[3] % ChunkDepth>>

\* C23: a setBlockWorld call on a cell of a loaded chunk with y in 0..127 sets the
\* type and axis of that cell, sets meshDirty of that chunk, adds that chunk's
\* coordinate, and nothing else, to the modified-set when one is given, and
\* leaves every other cell, every other flag, every other chunk and the set of
\* loaded chunks as they were
C23_WritesAddressedCell ==
    [][(/\ call'.op = "setBlockWorld"
        /\ Loaded(chunks, Owner(call'.w))
        /\ call'.w[2] \in 0..(ChunkHeight - 1)) =>
          LET k == Owner(call'.w)
          IN  /\ DOMAIN chunks' = DOMAIN chunks
              /\ \A j \in DOMAIN chunks \ {k} : chunks'[j] = chunks[j]
              /\ chunks'[k] =
                    [chunks[k] EXCEPT
                        !.writes = (LocalCell(call'.w) :> Block(call'.type, "X")) @@ @,
                        !.meshDirty = TRUE]
              /\ modified' = IF call'.track THEN modified \cup {k} ELSE modified
              /\ leaked' = leaked]_vars

\* C24: in the TERRAIN, STRUCTURE and MESH PASS of updateChunks no chunk is
\* inserted into or removed from the map and none is replaced or leaked, so the
\* chunk at a key stays the chunk a pointer obtained earlier in the pass points to
C24_MapFixedInPasses ==
    [][(pc = "terrain" \/ pc = "structure" \/ pc = "mesh") =>
          /\ DOMAIN chunks' = DOMAIN chunks
          /\ leaked' = leaked
          /\ \A k \in DOMAIN chunks :
                /\ chunks'[k].terrainRuns >= chunks[k].terrainRuns
                /\ chunks'[k].treeRuns >= chunks[k].treeRuns
                /\ (chunks[k].terrainGenerated => chunks'[k].terrainGenerated)]_vars

\* the passes of a tick of radius 1 have run over the 25 chunks of the map, and
\* a generateTrees call looked up, and wrote into, a chunk next to its own
C24_Witness ==
    /\ pc = "mesh"
    /\ call.op = "updateChunks"
    /\ Cardinality(DOMAIN chunks) = 25
    /\ \E l \in call.lookups : l[2] # l[1] /\ chunks[l[2]].writes # EmptyWrites

\* C25: after initPerlin, whatever rand() returned, the lower half of perm is a
\* permutation of the indices of that half (0..255 in the program), the upper
\* half repeats it, and the four indices at which perlin reads perm lie inside
\* the table (0..511 in the program)
C25_PermTable ==
    call.op \in {"initPerlin", "perlin"} =>
        /\ {perm[i] : i \in 0..(PermSize - 1)} = 0..(PermSize - 1)
        /\ \A i \in 0..(PermSize - 1) : perm[i + PermSize] = perm[i]
        /\ call.op = "perlin" =>
              \A k \in 1..4 : call.indices[k] \in 0..(2 * PermSize - 1)

\* perlin was asked for a point of the last lattice cell of the period, and read
\* the last entry of the table through the entry that begins the upper half
C25_Witness ==
    /\ call.op = "perlin"
    /\ call.X = PermSize - 1
    /\ call.Y = PermSize - 1
    /\ call.indices[4] = 2 * PermSize - 1
    /\ perm # Duplicate(Identity)

C27_RepeatTickNoOp ==
    [][((call'.op = "updateChunks" /\ call'.again)
          \/ (call.op = "updateChunks" /\ call.again)) =>
          /\ chunks' = chunks
          /\ leaked' = leaked
          /\ ranTrees' = ranTrees
          /\ pc = "create" => \A k \in ShouldExist(cam, radius) : ~NeedsCreate(chunks, k)
          /\ pc = "terrain" => \A k \in DOMAIN chunks : ~NeedsTerrain(chunks[k])
          /\ pc = "structure" => Pending = {}
          /\ pc = "mesh" =>
                \A k \in MeshKeys(chunks, cam, radius) : ~NeedsMesh(chunks[k])]_vars

\* the second of two calls of radius 1 around the same chunk has reached its
\* MESH PASS, over a map in which the first one placed trees
C27_Witness ==
    /\ pc = "mesh"
    /\ call.op = "updateChunks"
    /\ call.again
    /\ radius = 1
    /\ \E c \in DOMAIN chunks : chunks[c].writes # EmptyWrites


\* C28: generateTrees never changes a block that is not AIR: every write of a
\* call, trunk writes included, puts WOOD or LEAVES into a cell that held AIR
\* just before, the terrain of every chunk is the same after the call, and every
\* cell that held a block other than AIR before the call holds the same block
\* after it
C28_OnlyAirChanged ==
    [][call'.op = "generateTrees" =>
          /\ \A e \in call'.writes :
                e.before = "AIR" /\ e.block.type \in {"WOOD", "LEAVES"}
          /\ \A k \in DOMAIN chunks :
                /\ k \in DOMAIN chunks'
                /\ chunks'[k].filled = chunks[k].filled
                /\ \A cell \in DOMAIN chunks'[k].writes :
                      (GetBlock(chunks[k], cell[1], cell[2], cell[3]).type # "AIR") =>
                          GetBlock(chunks'[k], cell[1], cell[2], cell[3]) =
                              GetBlock(chunks[k], cell[1], cell[2], cell[3])]_vars

\* a call has planted a trunk whose 5x5 canopy square reaches, at the height of
\* one of the leaves it wrote, a block that an earlier call had put there
C28_Witness ==
    /\ call.op = "generateTrees"
    /\ \E e, f \in call.writes :
          /\ e.block.type = "WOOD"
          /\ f.block.type = "LEAVES"
          /\ \E k \in DOMAIN chunks :
                \E cell \in DOMAIN chunks[k].writes :
                    /\ \A g \in call.writes : ~(g.chunk = k /\ g.cell = cell)
                    /\ cell[2] = f.cell[2]
                    /\ LET dx == (k[1] * ChunkWidth + cell[1])
                                   - (e.chunk[1] * ChunkWidth + e.cell[1])
                           dz == (k[2] * ChunkDepth + cell[3])
                                   - (e.chunk[2] * ChunkDepth + e.cell[3])
                       IN  dx >= -2 /\ dx <= 2 /\ dz >= -2 /\ dz <= 2


\* C29: during updateChunks no block write of the structure pass is dropped:
\* every chunk generateTrees(c) looked up for a read or a write is c or a chunk at
\* Chebyshev distance 1 from c, every such chunk is loaded, no getChunk call of
\* the pass missed, no setBlockWorld call returned before writing, and no read
\* fell outside the grid of the chunk it was made on
C29_NoWriteDropped ==
    (call.op = "updateChunks" /\ (pc = "structure" \/ pc = "mesh")) =>
        /\ call.faults = {}
        /\ \A l \in call.lookups :
              /\ l[2] \in ChebSquare(l[1], 1)
              /\ ChebSquare(l[1], 1) \subseteq DOMAIN chunks


\* C30: after every tick of any sequence of updateChunks calls with a moving
\* observer, the mesh of each loaded chunk is current with respect to its four
\* lateral neighbours and its own blocks: it was built from the blocks the chunk
\* holds, and since it was built no lateral neighbour has been created, removed,
\* or changed in a cell adjacent to the shared border
C30_MeshCurrentWithNeighbours ==
    pc = "returned" =>
        \A k \in DOMAIN chunks :
            /\ k \notin stale
            /\ chunks[k].meshedFrom = [built |-> TRUE, blocks |-> BlocksOf(chunks[k])]

===========================================================================
